---------------------------- MODULE Spec2Model ----------------------------
(***************************************************************************)
(* Model of the grid-navigation Q-learning backend: the GridWorld          *)
(* environment (environment.py), the QLearningAgent (agent.py), the        *)
(* request handlers act / train / reset / save / load working on the one   *)
(* process-wide agent (main.py) and the saved-model table (database.py).   *)
(*                                                                         *)
(* Numbers.  The program computes with floats; the model computes with     *)
(* integers in thousandths (1.0 is 1000, -0.01 is -10) and rounds every    *)
(* product down (\div).  This holds for Q-values, rewards and epsilon.     *)
(*                                                                         *)
(* Threads.  The handlers are plain "def" endpoints, which the framework   *)
(* runs on a thread pool, so requests are handled concurrently on the      *)
(* shared agent.  A handler is a sequence of atomic steps, one per call    *)
(* of an agent method (learn, choose_action, update_memory); the steps of  *)
(* different workers interleave freely.  Steps on handler-local objects    *)
(* (the GridWorld of a training run) are steps of their own as well.       *)
(***************************************************************************)
EXTENDS Integers, Sequences, FiniteSets, TLC

(***************************************************************************)
(* Program constants, in thousandths.                                      *)
(***************************************************************************)
StepCost    == -10     \* reward = -0.01
WallPenalty == -100    \* reward = -0.1
GoalReward  == 1000    \* reward = 1.0
AlphaNum    == 1       \* alpha = 0.1 = AlphaNum / AlphaDen
AlphaDen    == 10
GammaNum    == 99      \* gamma = 0.99 = GammaNum / GammaDen
GammaDen    == 100
EpsilonInit == 1000    \* epsilon = 1.0
EpsilonMin  == 50      \* epsilon_min = 0.05
DecayNum    == 995     \* epsilon_decay = 0.995 = DecayNum / DecayDen
DecayDen    == 1000

\* agent.py ACTIONS (the name itself is reserved in TLA+).
ACTION_LIST == <<"up", "down", "left", "right">>
ActionSet == {ACTION_LIST[i] : i \in 1..Len(ACTION_LIST)}

(***************************************************************************)
(* Bounds of the model.  A run of the server is one of three kinds, each   *)
(* with its own budget of requests (the variable "limits"): serving only,  *)
(* one training run alone, and a one-episode training run with one other   *)
(* request, before it, after it or concurrent with it.                     *)
(***************************************************************************)
MaxRequests    == 3    \* serving: /act, /reset, /models requests, no /train
MaxEpisodes    == 2    \* training alone: "episodes" of the one /train request
StoredEpisodes == 405  \* episodes completed before the first stored row was saved

Scenarios ==
    { [requests |-> MaxRequests, trains |-> 0, episodes |-> 0],
      [requests |-> 1, trains |-> 1, episodes |-> MaxEpisodes],
      [requests |-> 2, trains |-> 1, episodes |-> 1] }

Workers == {"w1", "w2"}

\* Python's None for prev_state and prev_action.
NoState  == <<>>
NoAction == "None"

Max(a, b) == IF a >= b THEN a ELSE b

(***************************************************************************)
(* environment.py: GridWorld.  A position is <<x, y>>.                     *)
(***************************************************************************)
GridWorld(req) ==
    [height            |-> req.height,
     width             |-> req.width,
     starting_position |-> req.starting_position,
     target_position   |-> req.target_position,
     obstacles         |-> req.obstacles,
     current_position  |-> req.starting_position,
     max_steps         |-> req.height * req.width,
     steps             |-> 0]

EnvGetState(env) ==
    [position |-> env.current_position, target |-> env.target_position]

EnvReset(env) ==
    [env EXCEPT !.current_position = env.starting_position, !.steps = 0]

\* Mutants of Move: "right" tests x < width, "left" charges the wall penalty for
\* a move it makes, "up" tests y >= 0.
Move_RightEdge(env, a) ==
    LET x == env.current_position[1]
        y == env.current_position[2]
    IN  CASE a = "up" ->
               IF y > 0 THEN [pos |-> <<x, y - 1>>, reward |-> StepCost]
                        ELSE [pos |-> <<x, y>>, reward |-> WallPenalty]
          [] a = "down" ->
               IF y < env.height - 1
                        THEN [pos |-> <<x, y + 1>>, reward |-> StepCost]
                        ELSE [pos |-> <<x, y>>, reward |-> WallPenalty]
          [] a = "left" ->
               IF x > 0 THEN [pos |-> <<x - 1, y>>, reward |-> StepCost]
                        ELSE [pos |-> <<x, y>>, reward |-> WallPenalty]
          [] a = "right" ->
               IF x < env.width
                        THEN [pos |-> <<x + 1, y>>, reward |-> StepCost]
                        ELSE [pos |-> <<x, y>>, reward |-> WallPenalty]
          [] OTHER -> [pos |-> <<x, y>>, reward |-> StepCost]
Move_LeftPenalty(env, a) ==
    LET x == env.current_position[1]
        y == env.current_position[2]
    IN  CASE a = "up" ->
               IF y > 0 THEN [pos |-> <<x, y - 1>>, reward |-> StepCost]
                        ELSE [pos |-> <<x, y>>, reward |-> WallPenalty]
          [] a = "down" ->
               IF y < env.height - 1
                        THEN [pos |-> <<x, y + 1>>, reward |-> StepCost]
                        ELSE [pos |-> <<x, y>>, reward |-> WallPenalty]
          [] a = "left" ->
               IF x > 0 THEN [pos |-> <<x - 1, y>>, reward |-> WallPenalty]
                        ELSE [pos |-> <<x, y>>, reward |-> WallPenalty]
          [] a = "right" ->
               IF x < env.width - 1
                        THEN [pos |-> <<x + 1, y>>, reward |-> StepCost]
                        ELSE [pos |-> <<x, y>>, reward |-> WallPenalty]
          [] OTHER -> [pos |-> <<x, y>>, reward |-> StepCost]
Move_UpEdge(env, a) ==
    LET x == env.current_position[1]
        y == env.current_position[2]
    IN  CASE a = "up" ->
               IF y >= 0 THEN [pos |-> <<x, y - 1>>, reward |-> StepCost]
                         ELSE [pos |-> <<x, y>>, reward |-> WallPenalty]
          [] a = "down" ->
               IF y < env.height - 1
                        THEN [pos |-> <<x, y + 1>>, reward |-> StepCost]
                        ELSE [pos |-> <<x, y>>, reward |-> WallPenalty]
          [] a = "left" ->
               IF x > 0 THEN [pos |-> <<x - 1, y>>, reward |-> StepCost]
                        ELSE [pos |-> <<x, y>>, reward |-> WallPenalty]
          [] a = "right" ->
               IF x < env.width - 1
                        THEN [pos |-> <<x + 1, y>>, reward |-> StepCost]
                        ELSE [pos |-> <<x, y>>, reward |-> WallPenalty]
          [] OTHER -> [pos |-> <<x, y>>, reward |-> StepCost]

\* Lines 36-60: the candidate position and the reward of the move itself.
Move(env, a) ==
    LET x == env.current_position[1]
        y == env.current_position[2]
    IN  CASE a = "up" ->
               IF y > 0 THEN [pos |-> <<x, y - 1>>, reward |-> StepCost]
                        ELSE [pos |-> <<x, y>>, reward |-> WallPenalty]
          [] a = "down" ->
               IF y < env.height - 1
                        THEN [pos |-> <<x, y + 1>>, reward |-> StepCost]
                        ELSE [pos |-> <<x, y>>, reward |-> WallPenalty]
          [] a = "left" ->
               IF x > 0 THEN [pos |-> <<x - 1, y>>, reward |-> StepCost]
                        ELSE [pos |-> <<x, y>>, reward |-> WallPenalty]
          [] a = "right" ->
               IF x < env.width - 1
                        THEN [pos |-> <<x + 1, y>>, reward |-> StepCost]
                        ELSE [pos |-> <<x, y>>, reward |-> WallPenalty]
          [] OTHER -> [pos |-> <<x, y>>, reward |-> StepCost]

\* Mutant of Collide: the penalty without the revert.
Collide_NoRevert(env, m) ==
    IF m.pos \in env.obstacles
        THEN [pos |-> m.pos, reward |-> WallPenalty]
        ELSE m

\* Lines 62-65: a candidate on an obstacle is reverted, with the wall penalty.
Collide(env, m) ==
    IF m.pos \in env.obstacles
        THEN [pos |-> env.current_position, reward |-> WallPenalty]
        ELSE m

\* Mutant of TargetReward: the goal bonus replaces the step cost only.
TargetReward_StepOnly(env, pos, reward) ==
    IF pos = env.target_position /\ reward = StepCost THEN GoalReward ELSE reward

\* Lines 70-72: the reward after the target check.
TargetReward(env, pos, reward) ==
    IF pos = env.target_position THEN GoalReward ELSE reward

\* Mutant of StepDone: the timeout one step late.
StepDone_Late(env, pos, steps) ==
    pos = env.target_position \/ steps > env.max_steps

\* Lines 70-75: the done flag.
StepDone(env, pos, steps) ==
    pos = env.target_position \/ steps >= env.max_steps

\* Mutant of EnvStep: the returned dict has the step count before the step.
EnvStep_StaleSteps(env, a) ==
    LET m     == Collide(env, Move(env, a))
        steps == env.steps + 1
        env2  == [env EXCEPT !.current_position = m.pos, !.steps = steps]
    IN  [env    |-> env2,
         result |-> [state     |-> EnvGetState(env2),
                     reward    |-> TargetReward(env, m.pos, m.reward),
                     done      |-> StepDone(env, m.pos, steps),
                     steps     |-> env.steps,
                     max_steps |-> env.max_steps]]

\* GridWorld.step: the environment after the step and the returned dict.
EnvStep(env, a) ==
    LET m     == Collide(env, Move(env, a))
        steps == env.steps + 1
        env2  == [env EXCEPT !.current_position = m.pos, !.steps = steps]
    IN  [env    |-> env2,
         result |-> [state     |-> EnvGetState(env2),
                     reward    |-> TargetReward(env, m.pos, m.reward),
                     done      |-> StepDone(env, m.pos, steps),
                     steps     |-> steps,
                     max_steps |-> env.max_steps]]

(***************************************************************************)
(* agent.py: QLearningAgent.  The Q-table is a function from the known     *)
(* state keys to rows; a row is a function from ActionSet to values.       *)
(***************************************************************************)
ZeroRow == [a \in ActionSet |-> 0]

\* Mutant of EnsureRow: the new row has no entry for "right".
EnsureRow_NoRight(q, key) ==
    IF key \in DOMAIN q THEN q
    ELSE q @@ (key :> [a \in ActionSet \ {"right"} |-> 0])

\* "if state_key not in self.q_table: self.q_table[state_key] = {...}"
EnsureRow(q, key) ==
    IF key \in DOMAIN q THEN q ELSE q @@ (key :> ZeroRow)

RowMax(row) ==
    CHOOSE v \in {row[a] : a \in DOMAIN row} :
        \A a \in DOMAIN row : row[a] <= v

\* choose_action, lines 47-51: the actions random.choice(best_actions) can return.
BestActions(row) == {a \in DOMAIN row : row[a] = RowMax(row)}

\* choose_action, lines 41-51: random.random() is in [0, 1), so the exploring
\* branch can be taken when epsilon > 0 and the greedy one when epsilon < 1.
ChooseExplore(eps) == IF eps > 0 THEN ActionSet ELSE {}
ChooseGreedy(q, eps, state) ==
    IF eps < 1000 THEN BestActions(EnsureRow(q, state)[state]) ELSE {}

\* Mutant of NextMax: the bootstrap term is kept when done.
NextMax_IgnoreDone(q, next_state, done) ==
    RowMax(EnsureRow(q, next_state)[next_state])

\* learn, lines 64-70.
NextMax(q, next_state, done) ==
    IF done THEN 0 ELSE RowMax(EnsureRow(q, next_state)[next_state])

\* learn, lines 73-76: target and new_value.
QTarget(reward, next_max) == reward + (GammaNum * next_max) \div GammaDen
\* Mutant of QUpdate: the target replaces the old value, without alpha.
QUpdate_NoAlpha(old, reward, next_max) == QTarget(reward, next_max)
QUpdate(old, reward, next_max) ==
    old + (AlphaNum * (QTarget(reward, next_max) - old)) \div AlphaDen

\* Mutant of LearnTable: the row of next_state is made when done as well.
LearnTable_AlwaysRow(q, ps, pa, next_state, reward, done) ==
    LET q1  == EnsureRow(q, ps)
        old == q1[ps][pa]
        q2  == EnsureRow(q1, next_state)
        new == QUpdate(old, reward, NextMax(q1, next_state, done))
    IN  [q2 EXCEPT ![ps][pa] = new]

\* learn, lines 62-77: the table after learn with the pending pair (ps, pa).
LearnTable(q, ps, pa, next_state, reward, done) ==
    LET q1  == EnsureRow(q, ps)
        old == q1[ps][pa]
        q2  == IF done THEN q1 ELSE EnsureRow(q1, next_state)
        new == QUpdate(old, reward, NextMax(q1, next_state, done))
    IN  [q2 EXCEPT ![ps][pa] = new]

\* Mutant of DecayEpsilon: no floor.
DecayEpsilon_NoFloor(eps) == (eps * DecayNum) \div DecayDen

\* learn, line 83.
DecayEpsilon(eps) == Max(EpsilonMin, (eps * DecayNum) \div DecayDen)

\* Mutant of Learn: the end of the episode is handled before the guard.
Learn_DoneFirst(ag, next_state, reward, done) ==
    IF ag.prev_state = NoState \/ ag.prev_action = NoAction
        THEN [ag EXCEPT !.epsilon = IF done THEN DecayEpsilon(@) ELSE @]
        ELSE [q_table     |-> LearnTable(ag.q_table, ag.prev_state,
                                         ag.prev_action, next_state, reward, done),
              epsilon     |-> IF done THEN DecayEpsilon(ag.epsilon) ELSE ag.epsilon,
              prev_state  |-> IF done THEN NoState ELSE ag.prev_state,
              prev_action |-> IF done THEN NoAction ELSE ag.prev_action]

\* Mutant of Learn: the end of the episode leaves the memory.
Learn_KeepMemory(ag, next_state, reward, done) ==
    IF ag.prev_state = NoState \/ ag.prev_action = NoAction
        THEN ag
        ELSE [q_table     |-> LearnTable(ag.q_table, ag.prev_state,
                                         ag.prev_action, next_state, reward, done),
              epsilon     |-> IF done THEN DecayEpsilon(ag.epsilon) ELSE ag.epsilon,
              prev_state  |-> ag.prev_state,
              prev_action |-> ag.prev_action]

\* learn, lines 58-83, on the agent's fields ag.
Learn(ag, next_state, reward, done) ==
    IF ag.prev_state = NoState \/ ag.prev_action = NoAction
        THEN ag
        ELSE [q_table     |-> LearnTable(ag.q_table, ag.prev_state,
                                         ag.prev_action, next_state, reward, done),
              epsilon     |-> IF done THEN DecayEpsilon(ag.epsilon) ELSE ag.epsilon,
              prev_state  |-> IF done THEN NoState ELSE ag.prev_state,
              prev_action |-> IF done THEN NoAction ELSE ag.prev_action]

(***************************************************************************)
(* to_bytes / from_bytes.  The pickle is modelled as the list of the       *)
(* table's items, each a key with its four values in ACTION_LIST order,    *)
(* together with epsilon.                                                  *)
(***************************************************************************)
RECURSIVE ItemsOf(_, _)
ItemsOf(q, keys) ==
    IF keys = {} THEN <<>>
    ELSE LET k == CHOOSE k \in keys : \A j \in keys :
                      j[1] > k[1] \/ (j[1] = k[1] /\ j[2] >= k[2])
         IN  <<[key |-> k, values |-> [i \in 1..Len(ACTION_LIST) |-> q[k][ACTION_LIST[i]]]]>>
                 \o ItemsOf(q, keys \ {k})

to_bytes(q, eps) == [items |-> ItemsOf(q, DOMAIN q), epsilon |-> eps]

\* Mutant of RowOf: the values are read in the reverse order.
RowOf_Reversed(values) ==
    [a \in ActionSet |->
        values[Len(ACTION_LIST) + 1
                 - (CHOOSE i \in 1..Len(ACTION_LIST) : ACTION_LIST[i] = a)]]

RowOf(values) ==
    [a \in ActionSet |->
        values[CHOOSE i \in 1..Len(ACTION_LIST) : ACTION_LIST[i] = a]]

from_bytes(b) ==
    [q_table |-> [k \in {b.items[i].key : i \in 1..Len(b.items)} |->
                    RowOf((CHOOSE it \in {b.items[i] : i \in 1..Len(b.items)} :
                              it.key = k).values)],
     epsilon |-> b.epsilon]

(***************************************************************************)
(* Inputs of the requests.                                                 *)
(***************************************************************************)
\* StepData of /act: position, reward, done (target and obstacles are not read).
ActPositions == {<<0, 0>>, <<0, 1>>}
ActRewards   == {0, GoalReward}
ActInputs ==
    [position : ActPositions, reward : ActRewards, done : BOOLEAN]

\* TrainRequest of /train.  The grids of the training requests: a row with the
\* target at its left end, a column with an obstacle below the start and the
\* target above it, and a start that is the target, beside an obstacle.
Grids ==
    { [height |-> 1, width |-> 3, starting_position |-> <<1, 0>>,
       target_position |-> <<0, 0>>, obstacles |-> {}],
      [height |-> 3, width |-> 1, starting_position |-> <<0, 1>>,
       target_position |-> <<0, 0>>, obstacles |-> {<<0, 2>>}],
      [height |-> 1, width |-> 2, starting_position |-> <<0, 0>>,
       target_position |-> <<0, 0>>, obstacles |-> {<<1, 0>>}] }
TrainRequests ==
    { [episodes |-> n, height |-> g.height, width |-> g.width,
       starting_position |-> g.starting_position,
       target_position |-> g.target_position, obstacles |-> g.obstacles] :
          n \in 0..MaxEpisodes, g \in Grids }

(***************************************************************************)
(* The saved_models table outlives the server process.  The rows an        *)
(* earlier process left hold the agent after n single-step episodes at    *)
(* (0,0) with reward 0 (act done=false, then act done=true), which leave   *)
(* the zero row of (0,0) and epsilon decayed n times: one row saved after  *)
(* StoredEpisodes episodes and one saved an episode later.                 *)
(***************************************************************************)
\* Epsilon after n completed episodes, from EpsilonInit.  (Sixteen decays at a
\* level, and the test of v, keep the evaluation shallow.)
Decay4(eps) == DecayEpsilon(DecayEpsilon(DecayEpsilon(DecayEpsilon(eps))))
Decay16(eps) == Decay4(Decay4(Decay4(Decay4(eps))))
RECURSIVE DecayTimes(_)
DecayTimes(n) ==
    IF n = 0 THEN EpsilonInit
    ELSE IF n >= 16
      THEN LET v == DecayTimes(n - 16)
           IN  IF v >= EpsilonMin THEN Decay16(v) ELSE EpsilonMin
      ELSE LET v == DecayTimes(n - 1)
           IN  IF v >= EpsilonMin THEN DecayEpsilon(v) ELSE EpsilonMin

StoredRow(n) ==
    LET eps == DecayTimes(n)
    IN  [epsilon |-> eps, data |-> to_bytes(<<0, 0>> :> ZeroRow, eps)]
StoredRows == <<StoredRow(StoredEpisodes), StoredRow(StoredEpisodes + 1)>>

(***************************************************************************)
(* State.                                                                  *)
(***************************************************************************)
VARIABLES
    q_table, epsilon, prev_state, prev_action,  \* the agent of main.py line 26
    db,              \* saved_models: the sequence of rows, the id is the index
    nreq,            \* requests accepted so far
    ntrain,          \* /train requests accepted so far
    limits,          \* the budget of this run, one of Scenarios
    pc,              \* per worker: where its handler stands
    rid,             \* per worker: the number of the request it handles
    data,            \* per worker, act: data.position; train: the position read
    action,          \* per worker: the local "action"
    env,             \* per worker, train: the GridWorld
    episodes, ep,    \* per worker, train: req.episodes and the loop variable
    result,          \* per worker, train: the dict env.step returned
    total_reward,    \* per worker, train
    results,         \* per worker, train: the EpisodeResult list
    prev_owner,      \* history: the request stream that called update_memory
    hist,            \* history: a done=false act and a done=true act in a row
    pos_before,      \* history, per worker, train: the position env.step started from
    new_prev_row     \* history: the last step was a learn whose get_q made the
                     \* row of its pending pair

agent_vars == <<q_table, epsilon, prev_state, prev_action>>
local_vars == <<pc, rid, data, action, env, episodes, ep, result,
                total_reward, results>>
vars == <<q_table, epsilon, prev_state, prev_action, db, nreq, ntrain, limits, pc, rid, data,
          action, env, episodes, ep, result, total_reward, results,
          prev_owner, hist, pos_before, new_prev_row>>

Agent ==
    [q_table |-> q_table, epsilon |-> epsilon,
     prev_state |-> prev_state, prev_action |-> prev_action]

SetAgent(ag) ==
    /\ q_table' = ag.q_table
    /\ epsilon' = ag.epsilon
    /\ prev_state' = ag.prev_state
    /\ prev_action' = ag.prev_action

\* Values of the locals of a worker that handles nothing.
NoEnv ==
    [height |-> 0, width |-> 0, starting_position |-> <<0, 0>>,
     target_position |-> <<0, 0>>, obstacles |-> {},
     current_position |-> <<0, 0>>, max_steps |-> 0, steps |-> 0]
NoResult ==
    [state |-> [position |-> <<0, 0>>, target |-> <<0, 0>>], reward |-> 0,
     done |-> FALSE, steps |-> 0, max_steps |-> 0]

\* The stream of a request: all /act requests are the one single-step stream,
\* a /train request is the stream of its own number.
ActStream      == <<"act">>
TrainStream(w) == <<"train", rid[w]>>
NoOwner        == <<>>
NoHist ==
    [stage |-> 0, position |-> <<0, 0>>, action |-> NoAction, before |-> 0,
     epsilon |-> 0, reward |-> 0, table |-> <<>>]

Idle(w) == pc[w] = "idle"

Init ==
    /\ q_table = <<>>
    /\ epsilon = EpsilonInit
    /\ prev_state = NoState
    /\ prev_action = NoAction
    /\ db \in {<<>>, StoredRows}
    /\ nreq = 0
    /\ ntrain = 0
    /\ limits \in Scenarios
    /\ pc = [w \in Workers |-> "idle"]
    /\ rid = [w \in Workers |-> 0]
    /\ data = [w \in Workers |-> <<0, 0>>]
    /\ action = [w \in Workers |-> NoAction]
    /\ env = [w \in Workers |-> NoEnv]
    /\ episodes = [w \in Workers |-> 0]
    /\ ep = [w \in Workers |-> 0]
    /\ result = [w \in Workers |-> NoResult]
    /\ total_reward = [w \in Workers |-> 0]
    /\ results = [w \in Workers |-> <<>>]
    /\ prev_owner = NoOwner
    /\ hist = NoHist
    /\ pos_before = [w \in Workers |-> <<0, 0>>]
    /\ new_prev_row = FALSE

\* The handler of worker w returns: its locals are dropped.
Return(w) ==
    /\ pc' = [pc EXCEPT ![w] = "idle"]
    /\ rid' = [rid EXCEPT ![w] = 0]
    /\ data' = [data EXCEPT ![w] = <<0, 0>>]
    /\ action' = [action EXCEPT ![w] = NoAction]
    /\ env' = [env EXCEPT ![w] = NoEnv]
    /\ episodes' = [episodes EXCEPT ![w] = 0]
    /\ ep' = [ep EXCEPT ![w] = 0]
    /\ result' = [result EXCEPT ![w] = NoResult]
    /\ total_reward' = [total_reward EXCEPT ![w] = 0]
    /\ results' = [results EXCEPT ![w] = <<>>]

\* The history of update_memory's caller follows the memory.
OwnerAfter(ag) ==
    IF ag.prev_state = NoState /\ ag.prev_action = NoAction
        THEN NoOwner ELSE prev_owner

OthersIdle(w) == \A v \in Workers \ {w} : Idle(v)

\* learn is about to call get_q for a pending pair whose row is not in the table.
MakesPrevRow ==
    /\ prev_state # NoState /\ prev_action # NoAction
    /\ prev_state \notin DOMAIN q_table

(***************************************************************************)
(* POST /act, main.py lines 90-105.                                        *)
(***************************************************************************)
\* Lines 93-97, for the request body d: learn from the previous step; a done
\* request returns "stop".
ActLearnWith(w, d) ==
    LET ag == Learn(Agent, d.position, d.reward, d.done)
    IN  /\ SetAgent(ag)
        /\ prev_owner' = OwnerAfter(ag)
        /\ nreq' = nreq + 1
        /\ IF d.done
             THEN UNCHANGED local_vars
             ELSE /\ pc' = [pc EXCEPT ![w] = "a_choose"]
                  /\ rid' = [rid EXCEPT ![w] = nreq + 1]
                  /\ data' = [data EXCEPT ![w] = d.position]
                  /\ UNCHANGED <<action, env, episodes, ep, result,
                                 total_reward, results>>
        /\ hist' =
             IF ~d.done /\ OthersIdle(w) /\ prev_state = NoState
                   /\ prev_action = NoAction
               THEN [NoHist EXCEPT !.stage = 1, !.position = d.position,
                                   !.table = q_table, !.epsilon = epsilon]
             ELSE IF d.done /\ OthersIdle(w) /\ hist.stage = 2
               THEN [hist EXCEPT !.stage = 3, !.reward = d.reward]
             ELSE NoHist
        /\ new_prev_row' = MakesPrevRow
        /\ UNCHANGED <<db, ntrain, limits, pos_before>>

ActLearn(w) ==
    /\ Idle(w)
    /\ nreq < limits.requests
    /\ \E d \in ActInputs : ActLearnWith(w, d)

\* Line 100: choose_action(data.position).
ActChoose(w) ==
    /\ pc[w] = "a_choose"
    /\ \E a \in ChooseExplore(epsilon) \cup ChooseGreedy(q_table, epsilon, data[w]) :
         action' = [action EXCEPT ![w] = a]
    /\ q_table' = EnsureRow(q_table, data[w])
    /\ pc' = [pc EXCEPT ![w] = "a_update"]
    /\ hist' = IF hist.stage = 1 THEN hist ELSE NoHist
    /\ new_prev_row' = FALSE
    /\ UNCHANGED <<epsilon, prev_state, prev_action, db, nreq, ntrain, limits, rid, data, env,
                   episodes, ep, result, total_reward, results, prev_owner,
                   pos_before>>

\* Lines 103-105: update_memory(data.position, action) and the response.
ActUpdate(w) ==
    /\ pc[w] = "a_update"
    /\ prev_state' = data[w]
    /\ prev_action' = action[w]
    /\ prev_owner' = ActStream
    /\ Return(w)
    /\ hist' =
         IF hist.stage = 1
           THEN [hist EXCEPT
                   !.stage = 2, !.action = action[w], !.table = q_table,
                   !.before = IF data[w] \in DOMAIN hist.table
                                THEN hist.table[data[w]][action[w]] ELSE 0]
           ELSE NoHist
    /\ new_prev_row' = FALSE
    /\ UNCHANGED <<q_table, epsilon, db, nreq, ntrain, limits, pos_before>>

(***************************************************************************)
(* POST /train, main.py lines 108-168.                                     *)
(***************************************************************************)
\* Lines 114-124: the GridWorld of the run and the empty result list.
TrainStart(w) ==
    /\ Idle(w)
    /\ nreq < limits.requests
    /\ ntrain < limits.trains
    /\ ntrain' = ntrain + 1
    /\ \E req \in TrainRequests :
         /\ req.episodes <= limits.episodes
         /\ env' = [env EXCEPT ![w] = GridWorld(req)]
         /\ episodes' = [episodes EXCEPT ![w] = req.episodes]
         /\ pc' = [pc EXCEPT ![w] = IF req.episodes >= 1 THEN "t_reset"
                                                           ELSE "t_return"]
    /\ ep' = [ep EXCEPT ![w] = 1]
    /\ rid' = [rid EXCEPT ![w] = nreq + 1]
    /\ nreq' = nreq + 1
    /\ hist' = NoHist
    /\ new_prev_row' = FALSE
    /\ UNCHANGED <<agent_vars, db, limits, data, action, result, total_reward, results,
                   prev_owner, pos_before>>

\* Lines 125-130: env.reset() and the learn call that opens the episode.
TrainReset(w) ==
    /\ pc[w] = "t_reset"
    /\ LET env2 == EnvReset(env[w])
           obs  == EnvGetState(env2)
           ag   == Learn(Agent, obs.position, 0, FALSE)
       IN  /\ env' = [env EXCEPT ![w] = env2]
           /\ data' = [data EXCEPT ![w] = obs.position]
           /\ SetAgent(ag)
           /\ prev_owner' = OwnerAfter(ag)
    /\ total_reward' = [total_reward EXCEPT ![w] = 0]
    /\ pc' = [pc EXCEPT ![w] = "t_choose"]
    /\ hist' = NoHist
    /\ new_prev_row' = MakesPrevRow
    /\ UNCHANGED <<db, nreq, ntrain, limits, rid, action, episodes, ep, result, results,
                   pos_before>>

\* Lines 131 and 152: choose_action on the position just observed.
TrainChoose(w) ==
    /\ pc[w] = "t_choose"
    /\ \E a \in ChooseExplore(epsilon) \cup ChooseGreedy(q_table, epsilon, data[w]) :
         action' = [action EXCEPT ![w] = a]
    /\ q_table' = EnsureRow(q_table, data[w])
    /\ pc' = [pc EXCEPT ![w] = "t_update"]
    /\ hist' = NoHist
    /\ new_prev_row' = FALSE
    /\ UNCHANGED <<epsilon, prev_state, prev_action, db, nreq, ntrain, limits, rid, data, env,
                   episodes, ep, result, total_reward, results, prev_owner,
                   pos_before>>

\* Lines 132 and 153: update_memory.
TrainUpdate(w) ==
    /\ pc[w] = "t_update"
    /\ prev_state' = data[w]
    /\ prev_action' = action[w]
    /\ prev_owner' = TrainStream(w)
    /\ pc' = [pc EXCEPT ![w] = "t_step"]
    /\ hist' = NoHist
    /\ new_prev_row' = FALSE
    /\ UNCHANGED <<q_table, epsilon, db, nreq, ntrain, limits, rid, data, action, env, episodes,
                   ep, result, total_reward, results, pos_before>>

\* Lines 135-139: env.step(action) and the reward sum.
TrainStep(w) ==
    /\ pc[w] = "t_step"
    /\ LET r == EnvStep(env[w], action[w])
       IN  /\ env' = [env EXCEPT ![w] = r.env]
           /\ result' = [result EXCEPT ![w] = r.result]
           /\ data' = [data EXCEPT ![w] = r.result.state.position]
           /\ total_reward' = [total_reward EXCEPT ![w] = @ + r.result.reward]
    /\ pc' = [pc EXCEPT ![w] = "t_learn"]
    /\ hist' = NoHist
    /\ pos_before' = [pos_before EXCEPT ![w] = env[w].current_position]
    /\ new_prev_row' = FALSE
    /\ UNCHANGED <<agent_vars, db, nreq, ntrain, limits, rid, action, episodes, ep, results,
                   prev_owner>>

\* Mutant of EpisodeResult: every entry is numbered 1.
EpisodeResult_First(w) ==
    [episode        |-> 1,
     steps          |-> result[w].steps,
     total_reward   |-> total_reward[w],
     reached_target |-> result[w].state.position = env[w].target_position]

\* Lines 155-162: the EpisodeResult of the episode that just ended.
EpisodeResult(w) ==
    [episode        |-> ep[w],
     steps          |-> result[w].steps,
     total_reward   |-> total_reward[w],
     reached_target |-> result[w].state.position = env[w].target_position]

\* Lines 142-162: learn from the transition; on done, record the episode.
TrainLearn(w) ==
    /\ pc[w] = "t_learn"
    /\ LET ag == Learn(Agent, result[w].state.position, result[w].reward,
                       result[w].done)
       IN  /\ SetAgent(ag)
           /\ prev_owner' = OwnerAfter(ag)
    /\ IF result[w].done
         THEN /\ results' = [results EXCEPT ![w] = Append(@, EpisodeResult(w))]
              /\ ep' = [ep EXCEPT ![w] = @ + 1]
              /\ pc' = [pc EXCEPT ![w] = IF ep[w] + 1 > episodes[w]
                                           THEN "t_return" ELSE "t_reset"]
         ELSE /\ pc' = [pc EXCEPT ![w] = "t_choose"]
              /\ UNCHANGED <<ep, results>>
    /\ hist' = NoHist
    /\ new_prev_row' = MakesPrevRow
    /\ pos_before' = [pos_before EXCEPT ![w] = <<0, 0>>]
    /\ UNCHANGED <<db, nreq, ntrain, limits, rid, data, action, env, episodes, result,
                   total_reward>>

\* Lines 164-168: the TrainResponse.
TrainResponse(w) ==
    [episodes_trained |-> episodes[w], epsilon |-> epsilon,
     results |-> results[w]]

TrainReturn(w) ==
    /\ pc[w] = "t_return"
    /\ Return(w)
    /\ hist' = NoHist
    /\ new_prev_row' = FALSE
    /\ UNCHANGED <<agent_vars, db, nreq, ntrain, limits, prev_owner, pos_before>>

(***************************************************************************)
(* POST /reset, POST /models, POST /models/{id}/load: one agent call each. *)
(***************************************************************************)
\* Lines 192-199.
ResetAgent ==
    /\ nreq < limits.requests
    /\ q_table' = <<>>
    /\ epsilon' = EpsilonInit
    /\ prev_state' = NoState
    /\ prev_action' = NoAction
    /\ prev_owner' = NoOwner
    /\ nreq' = nreq + 1
    /\ hist' = NoHist
    /\ new_prev_row' = FALSE
    /\ UNCHANGED <<db, ntrain, limits, local_vars, pos_before>>

\* Lines 202-217.
SaveModel ==
    /\ nreq < limits.requests
    /\ db' = Append(db, [epsilon |-> epsilon, data |-> to_bytes(q_table, epsilon)])
    /\ nreq' = nreq + 1
    /\ hist' = NoHist
    /\ new_prev_row' = FALSE
    /\ UNCHANGED <<agent_vars, ntrain, limits, local_vars, prev_owner, pos_before>>

\* Mutant of LoadModel: the load clears the memory.
LoadModel_ClearsMemory ==
    /\ nreq < limits.requests
    /\ \E id \in 1..Len(db) :
         LET loaded == from_bytes(db[id].data)
         IN  /\ q_table' = loaded.q_table
             /\ epsilon' = loaded.epsilon
    /\ prev_state' = NoState
    /\ prev_action' = NoAction
    /\ prev_owner' = NoOwner
    /\ nreq' = nreq + 1
    /\ hist' = NoHist
    /\ new_prev_row' = FALSE
    /\ UNCHANGED <<db, ntrain, limits, local_vars, pos_before>>

\* Lines 219-241, for an id that exists.
LoadModel ==
    /\ nreq < limits.requests
    /\ \E id \in 1..Len(db) :
         LET loaded == from_bytes(db[id].data)
         IN  /\ q_table' = loaded.q_table
             /\ epsilon' = loaded.epsilon
    /\ nreq' = nreq + 1
    /\ hist' = NoHist
    /\ new_prev_row' = FALSE
    /\ UNCHANGED <<prev_state, prev_action, db, ntrain, limits, local_vars, prev_owner,
                   pos_before>>

Next ==
    \/ \E w \in Workers : ActLearn(w)
    \/ \E w \in Workers : ActChoose(w)
    \/ \E w \in Workers : ActUpdate(w)
    \/ \E w \in Workers : TrainStart(w)
    \/ \E w \in Workers : TrainReset(w)
    \/ \E w \in Workers : TrainChoose(w)
    \/ \E w \in Workers : TrainUpdate(w)
    \/ \E w \in Workers : TrainStep(w)
    \/ \E w \in Workers : TrainLearn(w)
    \/ \E w \in Workers : TrainReturn(w)
    \/ ResetAgent
    \/ SaveModel
    \/ LoadModel

Spec == Init /\ [][Next]_vars

(***************************************************************************)
(* Properties.  "After a step" is pc[w] = "t_learn": env[w] and result[w]  *)
(* are those env.step just produced and action[w] is the action it took.   *)
(***************************************************************************)
InGrid(e, pos) ==
    /\ 0 <= pos[1] /\ pos[1] < e.width
    /\ 0 <= pos[2] /\ pos[2] < e.height

\* The cell one step from pos in direction a.
Cell(pos, a) ==
    CASE a = "up"    -> <<pos[1], pos[2] - 1>>
      [] a = "down"  -> <<pos[1], pos[2] + 1>>
      [] a = "left"  -> <<pos[1] - 1, pos[2]>>
      [] a = "right" -> <<pos[1] + 1, pos[2]>>

StepBy(w) == TrainStep(w)
Here(w)   == env[w].current_position
Aim(w)    == Cell(Here(w), action[w])

\* C1: whenever the position after GridWorld.step is the target position, the
\* returned reward is the goal bonus and done is true.
C1_GoalOverrides ==
    \A w \in Workers :
        (pc[w] = "t_learn" /\ env[w].current_position = env[w].target_position)
            => (result[w].reward = GoalReward /\ result[w].done = TRUE)

\* The first step of an episode that starts on the target ran into the wall
\* above and was still paid the goal bonus.
C1_Witness ==
    \E w \in Workers :
        /\ pc[w] = "t_learn" /\ env[w].steps = 1
        /\ env[w].starting_position = env[w].target_position
        /\ action[w] = "up" /\ env[w].starting_position[2] = 0
        /\ env[w].current_position = env[w].target_position
        /\ result[w].reward = GoalReward /\ result[w].done

\* C2 as stated: a step whose action points off the grid leaves the position
\* unchanged and returns the wall penalty, which is below the step cost.
C2_AsStated ==
    [][\A w \in Workers :
          (StepBy(w) /\ ~InGrid(env[w], Aim(w)))
              => /\ env'[w].current_position = Here(w)
                 /\ result'[w].reward = WallPenalty
                 /\ WallPenalty < StepCost]_vars

\* C2 amended: ... and returns the wall penalty unless the unchanged position is
\* the target position, where it returns the goal bonus with done = true.
C2_OffGrid ==
    [][\A w \in Workers :
          (StepBy(w) /\ ~InGrid(env[w], Aim(w)))
              => /\ env'[w].current_position = Here(w)
                 /\ result'[w].state.position = Here(w)
                 /\ IF Here(w) = env[w].target_position
                      THEN result'[w].reward = GoalReward /\ result'[w].done
                      ELSE result'[w].reward = WallPenalty
                 /\ WallPenalty < StepCost]_vars

\* A step to the right at the right edge, away from the target, was paid the
\* wall penalty.
C2_Witness ==
    \E w \in Workers :
        /\ pc[w] = "t_learn" /\ action[w] = "right"
        /\ env[w].current_position[1] = env[w].width - 1
        /\ env[w].current_position # env[w].target_position
        /\ result[w].reward = WallPenalty

\* C3 as stated: a step whose move would land on an obstacle leaves the position
\* unchanged and returns the wall penalty.
C3_AsStated ==
    [][\A w \in Workers :
          (StepBy(w) /\ InGrid(env[w], Aim(w)) /\ Aim(w) \in env[w].obstacles)
              => /\ env'[w].current_position = Here(w)
                 /\ result'[w].reward = WallPenalty]_vars

\* C3 amended: ... and returns what a move off the grid returns there: the wall
\* penalty, or the goal bonus with done = true on the target position.
C3_Obstacle ==
    [][\A w \in Workers :
          (StepBy(w) /\ InGrid(env[w], Aim(w)) /\ Aim(w) \in env[w].obstacles)
              => /\ env'[w].current_position = Here(w)
                 /\ result'[w].state.position = Here(w)
                 /\ IF Here(w) = env[w].target_position
                      THEN result'[w].reward = GoalReward /\ result'[w].done
                      ELSE result'[w].reward = WallPenalty]_vars

\* A step down onto the obstacle below the start, away from the target, was
\* paid the wall penalty and did not move.
C3_Witness ==
    \E w \in Workers :
        /\ pc[w] = "t_learn" /\ action[w] = "down"
        /\ InGrid(env[w], Cell(env[w].current_position, "down"))
        /\ Cell(env[w].current_position, "down") \in env[w].obstacles
        /\ env[w].current_position # env[w].target_position
        /\ result[w].reward = WallPenalty

\* C4 as stated: a step that stays inside the grid, off the obstacles and off the
\* target returns the step cost and done = false.
C4_AsStated ==
    [][\A w \in Workers :
          (/\ StepBy(w) /\ InGrid(env[w], Aim(w))
           /\ Aim(w) \notin env[w].obstacles
           /\ Aim(w) # env[w].target_position)
              => /\ result'[w].reward = StepCost
                 /\ result'[w].done = FALSE]_vars

\* C4 amended: ... returns the step cost, and done = false unless the step is the
\* max_steps-th of its episode, where done = true.
C4_PlainMove ==
    [][\A w \in Workers :
          (/\ StepBy(w) /\ InGrid(env[w], Aim(w))
           /\ Aim(w) \notin env[w].obstacles
           /\ Aim(w) # env[w].target_position)
              => /\ env'[w].current_position = Aim(w)
                 /\ result'[w].reward = StepCost
                 /\ result'[w].done = (env[w].steps + 1 >= env[w].max_steps)]_vars

\* A plain move before the last step of the episode: step cost, not done.
C4_Witness ==
    \E w \in Workers :
        /\ pc[w] = "t_learn" /\ env[w].steps = 1
        /\ env[w].current_position = Cell(env[w].starting_position, action[w])
        /\ InGrid(env[w], env[w].current_position)
        /\ env[w].current_position # env[w].target_position
        /\ result[w].reward = StepCost /\ result[w].done = FALSE

TrainPcs == {"t_reset", "t_choose", "t_update", "t_step", "t_learn", "t_return"}
Training(w) == pc[w] \in TrainPcs

\* The threads of the pool keep running: a handler that can take a step does.
WorkerStep(w) ==
    \/ ActChoose(w) \/ ActUpdate(w)
    \/ TrainReset(w) \/ TrainChoose(w) \/ TrainUpdate(w) \/ TrainStep(w)
    \/ TrainLearn(w) \/ TrainReturn(w)
FairSpec == Spec /\ \A w \in Workers : WF_vars(WorkerStep(w))

\* The steps of the episode under way are within max_steps, the step that
\* reaches max_steps returns done, and so did every recorded episode.
EpisodeBound(w) ==
    /\ env[w].steps <= env[w].max_steps
    /\ (pc[w] = "t_learn" /\ env[w].steps = env[w].max_steps) => result[w].done
    /\ \A i \in 1..Len(results[w]) : results[w][i].steps <= env[w].max_steps
    /\ Len(results[w]) <= episodes[w]

\* C5: in a training run every episode ends after at most max_steps environment
\* steps, whatever actions the agent chooses, and the run of N episodes completes:
\* it comes to return its N results.
C5_EpisodesEnd ==
    /\ [](\A w \in Workers : Training(w) => EpisodeBound(w))
    /\ \A w \in Workers :
         Training(w) ~> (pc[w] = "t_return" /\ Len(results[w]) = episodes[w])

\* An episode that ended by the timeout alone, after max_steps wall hits.
C5_Witness ==
    \E w \in Workers :
        /\ pc[w] = "t_learn"
        /\ env[w].steps = env[w].max_steps /\ env[w].max_steps >= 3
        /\ env[w].current_position # env[w].target_position
        /\ env[w].current_position = env[w].starting_position
        /\ result[w].reward = WallPenalty /\ result[w].done

\* C6: on a GridWorld whose starting position is inside the grid, the current
\* position is inside the grid after any sequence of reset and step calls.
C6_InBounds ==
    \A w \in Workers :
        (Training(w) /\ InGrid(env[w], env[w].starting_position))
            => InGrid(env[w], env[w].current_position)

\* In the second episode, after its reset, a step off the grid left the position
\* inside.
C6_Witness ==
    \E w \in Workers :
        /\ pc[w] = "t_learn" /\ ep[w] = 2 /\ env[w].steps = 1
        /\ ~InGrid(env[w], Cell(env[w].starting_position, action[w]))
        /\ InGrid(env[w], env[w].current_position)

Pending == prev_state # NoState /\ prev_action # NoAction

\* A step that is a call of learn, and one that is a call with done = true.
LearnStep(w) == ActLearn(w) \/ TrainReset(w) \/ TrainLearn(w)
LearnDoneStep(w) ==
    \/ (Idle(w) /\ nreq < limits.requests
          /\ \E d \in ActInputs : d.done /\ ActLearnWith(w, d))
    \/ (TrainLearn(w) /\ result[w].done)

\* C7: learn called with no pending (previous_state, previous_action) pair
\* changes neither the value table nor epsilon nor the memory, for any next
\* state, reward and done flag.
C7_LearnNoPending ==
    [][\A w \in Workers :
          (LearnStep(w) /\ ~Pending) => UNCHANGED agent_vars]_vars

\* In a run of one training request and nothing else, the learn call that opens
\* the second episode has run: no pair was pending, the table has its rows.
C7_Witness ==
    \E w \in Workers :
        /\ limits.requests = 1
        /\ pc[w] = "t_choose" /\ ep[w] = 2 /\ env[w].steps = 0
        /\ prev_state = NoState /\ prev_action = NoAction
        /\ q_table # <<>>

\* C8: an act request with done = false on an agent with no pending memory,
\* followed at once by an act request with done = true.  The entry of (first
\* position, returned action) is updated exactly once, by the second request:
\* the first leaves its value (0 for a new row), the second sets it to one
\* application of the update rule with next_max = 0, no other entry changes,
\* no memory is pending afterwards and epsilon has decayed exactly once.
C8_ServeTwice ==
    hist.stage = 3 =>
        LET p == hist.position
            a == hist.action
        IN  /\ DOMAIN q_table = DOMAIN hist.table
            /\ p \in DOMAIN q_table
            /\ hist.table[p][a] = hist.before
            /\ q_table[p][a] =
                 hist.before + (AlphaNum * (hist.reward - hist.before)) \div AlphaDen
            /\ \A k \in DOMAIN q_table : \A b \in ActionSet :
                 (k # p \/ b # a) => q_table[k][b] = hist.table[k][b]
            /\ prev_state = NoState /\ prev_action = NoAction
            /\ epsilon = Max(EpsilonMin, (hist.epsilon * DecayNum) \div DecayDen)

\* The two requests were served on a table with values, the second with the
\* reward 1.0: the entry and epsilon both moved.
C8_Witness ==
    /\ hist.stage = 3
    /\ hist.reward = GoalReward
    /\ q_table[hist.position][hist.action] # hist.before
    /\ epsilon < hist.epsilon

\* C9: a learn call with done = true and a pending pair sets epsilon to
\* max(epsilon_min, epsilon * epsilon_decay), which is below the old value or
\* equal to it at the floor; no other step of act or train changes epsilon; and
\* over all act, train, reset, save and load requests epsilon stays at or above
\* epsilon_min.
C9_EpsilonDecay ==
    /\ [](epsilon >= EpsilonMin /\ epsilon <= EpsilonInit)
    /\ [][(\A w \in Workers :
             (LearnDoneStep(w) /\ Pending) =>
                (/\ epsilon' = Max(EpsilonMin, (epsilon * DecayNum) \div DecayDen)
                 /\ \/ epsilon' < epsilon
                    \/ (epsilon' = epsilon /\ epsilon = EpsilonMin)))
          /\ ((epsilon' # epsilon) =>
                (\/ \E w \in Workers : LearnDoneStep(w) /\ Pending
                 \/ ResetAgent
                 \/ LoadModel))]_vars

\* A stored row was loaded, then a training episode completed: epsilon is at the
\* floor.
C9_Witness ==
    \E w \in Workers :
        /\ pc[w] = "t_return" /\ rid[w] = 2 /\ Len(results[w]) = 1
        /\ epsilon = EpsilonMin
        /\ prev_state = NoState

\* C10, second half alone: a learn call credits its reward only to a pair that
\* its own request stream remembered.
CreditsOwnPair ==
    [][\A w \in Workers :
          /\ (ActLearn(w) /\ Pending) => (prev_owner = ActStream)
          /\ ((TrainReset(w) \/ TrainLearn(w)) /\ Pending)
                => (prev_owner = TrainStream(w))]_vars

\* The streams with a choose_action -> update_memory -> learn sequence in
\* flight: a training run from start to return, the single-step stream while
\* an /act handler runs or its pair waits for the next /act request.
InFlight ==
    {TrainStream(w) : w \in {v \in Workers : Training(v)}}
        \cup {ActStream : w \in {v \in Workers : pc[v] \in {"a_choose", "a_update"}}}
        \cup (IF prev_owner = ActStream THEN {ActStream} ELSE {})

\* C10 as stated: at most one sequence is in flight on the agent at any time,
\* and a learn call credits its reward only to a pair that its own request
\* stream remembered.
C10_Serialized ==
    /\ [](Cardinality(InFlight) <= 1)
    /\ [][\A w \in Workers :
            /\ (ActLearn(w) /\ Pending) => (prev_owner = ActStream)
            /\ ((TrainReset(w) \/ TrainLearn(w)) /\ Pending)
                  => (prev_owner = TrainStream(w))]_vars

(***************************************************************************)
(* Rows of the value table.                                                *)
(***************************************************************************)
FullRows(q) == \A k \in DOMAIN q : DOMAIN q[k] = ActionSet

\* A key that a step adds to the table comes with the all-zero row; when the
\* step is a learn whose get_q made the row of its pending pair, the same call
\* has then written the entry of the pending action, and only that one.
NewRowsZero ==
    \A k \in DOMAIN q_table' \ DOMAIN q_table :
        \/ \A a \in ActionSet : q_table'[k][a] = 0
        \/ /\ new_prev_row'
           /\ k = prev_state
           /\ \A a \in ActionSet \ {prev_action} : q_table'[k][a] = 0

\* C11: in every state reached by act, train, reset, save and load requests
\* every key of the value table has a row over exactly the four actions up,
\* down, left, right; and a row that choose_action or learn creates is all
\* zeros when created (a load replaces the table by a stored one).
C11_FullRows ==
    /\ [](FullRows(q_table))
    /\ [][LoadModel \/ NewRowsZero]_vars

\* learn found the row of its pending pair missing, made it and wrote the
\* entry of the pair: the table has a row with a value and an all-zero row.
C11_Witness ==
    /\ new_prev_row
    /\ Cardinality(DOMAIN q_table) >= 2
    /\ \E k \in DOMAIN q_table : \E a \in ActionSet : q_table[k][a] # 0
    /\ \E k \in DOMAIN q_table : \A a \in ActionSet : q_table[k][a] = 0

(***************************************************************************)
(* The training run as a whole.                                            *)
(***************************************************************************)
\* A step of the /train handler of worker w after its start.
TrainStepOf(w) ==
    \/ TrainReset(w) \/ TrainChoose(w) \/ TrainUpdate(w) \/ TrainStep(w)
    \/ TrainLearn(w) \/ TrainReturn(w)

\* The response of a run about to return: one entry per episode, numbered
\* 1..N in order, episodes_trained = N, and the agent's epsilon as it then is;
\* when the run is the only request the server got, that is the initial
\* epsilon decayed once per episode.
ResponseOfRun(w) ==
    LET r == TrainResponse(w)
    IN  /\ Len(r.results) = episodes[w]
        /\ \A i \in 1..Len(r.results) : r.results[i].episode = i
        /\ r.episodes_trained = Len(r.results)
        /\ r.epsilon = epsilon
        /\ (limits.requests = 1) => (r.epsilon = DecayTimes(episodes[w]))

\* C12: a training run of N episodes returns exactly N entries with the episode
\* indices 1..N in increasing order, episodes_trained = N and the agent's
\* epsilon after the last episode; and no step of the run resets the agent:
\* the table keeps its keys and epsilon changes only by the decay of a learn
\* call that ends an episode.
C12_TrainResults ==
    /\ [](\A w \in Workers :
            /\ Training(w) =>
                 \A i \in 1..Len(results[w]) : results[w][i].episode = i
            /\ (pc[w] = "t_return") => ResponseOfRun(w))
    /\ [][\A w \in Workers :
            TrainStepOf(w) =>
              /\ DOMAIN q_table \subseteq DOMAIN q_table'
              /\ \/ epsilon' = epsilon
                 \/ /\ TrainLearn(w) /\ result[w].done
                    /\ epsilon' = DecayEpsilon(epsilon)]_vars

\* A run of two episodes, alone on the server, is about to return.
C12_Witness ==
    \E w \in Workers :
        /\ limits.requests = 1
        /\ pc[w] = "t_return"
        /\ episodes[w] = 2 /\ Len(results[w]) = 2
        /\ epsilon = DecayTimes(2)

\* C13: right after every learn call with done = true, and right after the
\* reset operation, the agent has no pending (prev_state, prev_action) pair;
\* the reset also leaves the table empty and epsilon at its initial value 1.0.
C13_MemoryCleared ==
    [][/\ \A w \in Workers :
            LearnDoneStep(w) =>
                (prev_state' = NoState /\ prev_action' = NoAction)
       /\ ResetAgent =>
            (/\ q_table' = <<>>
             /\ epsilon' = EpsilonInit
             /\ prev_state' = NoState /\ prev_action' = NoAction)]_vars

\* The learn call that ended the first episode of a run has cleared the pair
\* that the run remembered, and decayed epsilon once.
C13_Witness ==
    \E w \in Workers :
        /\ limits.requests = 1
        /\ pc[w] = "t_reset" /\ ep[w] = 2
        /\ prev_state = NoState /\ prev_action = NoAction
        /\ epsilon = DecayEpsilon(EpsilonInit)

(***************************************************************************)
(* Export and import.                                                      *)
(***************************************************************************)
RoundTrip(q, eps) == from_bytes(to_bytes(q, eps))

ValueAt(k, a) == IF k \in DOMAIN q_table THEN q_table[k][a] ELSE 0
NewValue(ns, r, done) ==
    LET old      == ValueAt(prev_state, prev_action)
        next_max == IF done THEN 0
                    ELSE CHOOSE m \in {ValueAt(ns, a) : a \in ActionSet} :
                            \A a \in ActionSet : ValueAt(ns, a) <= m
    IN  old + (AlphaNum * (r + (GammaNum * next_max) \div GammaDen - old))
                \div AlphaDen

\* learn(ns, r, done) wrote the entry of the pending pair, left every other
\* entry that was in the table, and added only rows with keys in "allowed",
\* zero but for the entry written.
LearnEffect(ns, r, done, allowed) ==
    /\ DOMAIN q_table \subseteq DOMAIN q_table'
    /\ prev_state \in DOMAIN q_table'
    /\ q_table'[prev_state][prev_action] = NewValue(ns, r, done)
    /\ \A k \in DOMAIN q_table' : \A a \in ActionSet :
           (k # prev_state \/ a # prev_action) => q_table'[k][a] = ValueAt(k, a)
    /\ (DOMAIN q_table' \ DOMAIN q_table) \subseteq allowed

\* Every learn call of act and train made with a pending pair has the effect
\* Effect(next_state, reward, done).
EveryLearn(Effect(_, _, _)) ==
    \A w \in Workers :
        /\ \A d \in ActInputs :
               (Idle(w) /\ nreq < limits.requests /\ Pending /\ ActLearnWith(w, d))
                   => Effect(d.position, d.reward, d.done)
        /\ (TrainReset(w) /\ Pending)
               => Effect(EnvReset(env[w]).current_position, 0, FALSE)
        /\ (TrainLearn(w) /\ Pending)
               => Effect(result[w].state.position, result[w].reward,
                         result[w].done)

StatedEffect(ns, r, done) ==
    LearnEffect(ns, r, done, IF done THEN {} ELSE {ns})
ActualEffect(ns, r, done) ==
    LearnEffect(ns, r, done, {prev_state} \cup (IF done THEN {} ELSE {ns}))

\* C15 as stated: learn with a pending pair (s, a) sets Q(s, a) by the update
\* rule, changes no other existing entry, and adds at most one row, the row of
\* next_state, and only when done is false.
C15_AsStated == [][EveryLearn(StatedEffect)]_vars

\* C15 amended: as above, but the rows the call may add are the row of
\* next_state (only when done is false) and the row of the pending state s
\* itself, which get_q creates with zeros when s is not in the table (after a
\* load or a reset that came between update_memory and learn), whether done
\* or not; "old" is then 0.
C15_Learn == [][EveryLearn(ActualEffect)]_vars

\* A learn call with done = true has added the row of its pending pair.
C15_Witness ==
    /\ new_prev_row
    /\ prev_state = NoState /\ prev_action = NoAction
    /\ q_table # <<>>

(***************************************************************************)
(* Credit assignment in a training run.                                    *)
(***************************************************************************)
\* The learn call after an environment step of worker w credits the pair of
\* that step: the pending pair is the position the step started from and the
\* action it applied, and its entry is updated with the reward it returned.
CreditsStep(w) ==
    /\ Pending
    /\ prev_state = pos_before[w]
    /\ prev_action = action[w]
    /\ ActualEffect(result[w].state.position, result[w].reward, result[w].done)

\* C16 as stated: in a training run every learn call that follows an
\* environment step updates the entry of exactly the position the environment
\* was in before the step and the action applied in it, with the reward the
\* step returned.
C16_CreditsStep ==
    [][\A w \in Workers : TrainLearn(w) => CreditsStep(w)]_vars

\* C17 as stated: the learn(initial_state, 0.0, False) call that opens the
\* first episode of a training run leaves the table, epsilon and the memory
\* unchanged, whatever requests were served before the training request.
C17_FirstLearnNoOp ==
    [][\A w \in Workers :
          (TrainReset(w) /\ ep[w] = 1) => UNCHANGED agent_vars]_vars

(***************************************************************************)
(* The statistics of an episode.                                           *)
(***************************************************************************)
\* The entry r recorded for the episode that the environment e has just ended.
RecordsEpisode(r, e) ==
    /\ r.reached_target <=> (e.current_position = e.target_position)
    /\ r.steps = e.steps
    /\ (~r.reached_target) => (r.steps = e.max_steps)

\* C18: for every episode a training run records, reached_target is true
\* exactly when the environment's final position is the target, the recorded
\* steps are the environment steps taken in the episode, and an episode
\* recorded with reached_target = false ended with steps = max_steps.
C18_EpisodeStats ==
    /\ [][\A w \in Workers :
            (TrainLearn(w) /\ result[w].done) =>
               /\ Len(results'[w]) = Len(results[w]) + 1
               /\ RecordsEpisode(results'[w][Len(results'[w])], env[w])]_vars
    /\ [](\A w \in Workers :
            Training(w) =>
               \A i \in 1..Len(results[w]) :
                   (~results[w][i].reached_target)
                       => (results[w][i].steps = env[w].max_steps))

\* A run has recorded an episode that reached the target and then one that
\* timed out.
C18_Witness ==
    \E w \in Workers :
        /\ Len(results[w]) = 2
        /\ results[w][1].reached_target
        /\ ~results[w][2].reached_target
        /\ results[w][2].steps = env[w].max_steps

(***************************************************************************)
(* Load under a pending pair.                                              *)
(***************************************************************************)
\* Whatever learn call comes next on the agent with table q, epsilon eps and
\* the pending pair (ps, pa), it applies the update rule to the entry of
\* (ps, pa) in q (0 when q has no row for ps) and leaves the other entries of q.
CreditedByNextLearn(q, eps, ps, pa) ==
    \A d \in ActInputs :
        LET ag  == Learn([q_table |-> q, epsilon |-> eps,
                          prev_state |-> ps, prev_action |-> pa],
                         d.position, d.reward, d.done)
            old == IF ps \in DOMAIN q THEN q[ps][pa] ELSE 0
            nm  == IF d.done \/ d.position \notin DOMAIN q THEN 0
                   ELSE RowMax(q[d.position])
        IN  /\ ps \in DOMAIN ag.q_table
            /\ ag.q_table[ps][pa] =
                 old + (AlphaNum * (d.reward + (GammaNum * nm) \div GammaDen - old))
                         \div AlphaDen
            /\ \A k \in DOMAIN q : \A a \in ActionSet :
                 (k # ps \/ a # pa) => ag.q_table[k][a] = q[k][a]

\* C19: a load replaces the table and epsilon by those of the stored row and
\* leaves the pending (prev_state, prev_action) pair as it was; a pair that is
\* pending at the load is the pair the next learn call credits, in the loaded
\* table.
C19_LoadKeepsMemory ==
    [][LoadModel =>
         /\ prev_state' = prev_state /\ prev_action' = prev_action
         /\ \E id \in 1..Len(db) :
               /\ q_table' = from_bytes(db[id].data).q_table
               /\ epsilon' = from_bytes(db[id].data).epsilon
         /\ Pending =>
               CreditedByNextLearn(q_table', epsilon', prev_state', prev_action')]_vars

\* A row stored by an earlier process was loaded, and a learn call has then
\* credited its pending pair in the loaded table, which had no row for it.
C19_Witness ==
    /\ new_prev_row
    /\ epsilon <= DecayTimes(StoredEpisodes)
    /\ <<0, 0>> \in DOMAIN q_table
    /\ <<0, 1>> \in DOMAIN q_table

(***************************************************************************)
(* The keys a training run gives the table.                                *)
(***************************************************************************)
\* Worker w runs the first request of the server (the agent was new: empty
\* table, no pending pair), a training run on a grid whose start cell is in
\* bounds, not an obstacle and not the target.
FirstRunFromStart(w) ==
    /\ Training(w)
    /\ nreq = 1
    /\ InGrid(env[w], env[w].starting_position)
    /\ env[w].starting_position \notin env[w].obstacles
    /\ env[w].starting_position # env[w].target_position

FreeCell(e, k) ==
    /\ InGrid(e, k)
    /\ k \notin e.obstacles
    /\ k # e.target_position

\* C20: during such a run every key of the value table is an in-bounds,
\* non-obstacle cell other than the target.
C20_KeysAreFreeCells ==
    \A w \in Workers :
        FirstRunFromStart(w) => \A k \in DOMAIN q_table : FreeCell(env[w], k)

\* Such a run has ended an episode on the target and has rows for two cells.
C20_Witness ==
    \E w \in Workers :
        /\ FirstRunFromStart(w)
        /\ Cardinality(DOMAIN q_table) >= 2
        /\ \E i \in 1..Len(results[w]) : results[w][i].reached_target
=============================================================================
